---- MODULE Spec2Model ----
(***************************************************************************)
(* distributable_counter / counter_broker / tls_distributed_counter        *)
(* (include/distributable_counter.h) as a state machine.                   *)
(*                                                                         *)
(* Every atomic access of the header (one fetch_add, one load, one store,  *)
(* one exchange, one mutex acquisition) is one step of the calling thread, *)
(* so that the interleavings of the real program are the behaviours of the *)
(* model.  Integral is an unsigned type of Width bits: all arithmetic is   *)
(* taken modulo 2^Width.                                                   *)
(***************************************************************************)
EXTENDS Integers, Sequences, FiniteSets, TLC

\* ------------------------------------------------------------- bounds
Width == 2          \* bits of Integral
NThreads == 2       \* threads of the program
MaxOps == 4         \* calls issued in one run
MaxWrapperOps == 3  \* calls issued in one run through the wrappers
MaxFairOps == 3     \* calls issued in one run under fair scheduling
MaxPrefixOps == 4   \* calls issued in one run with the amounts recorded
MaxIncrementOps == 5  \* calls issued in one run of increments and loads
NoValue == 0 - 1      \* "no result yet" / "nothing recorded" marker

Modulus == 2 ^ Width
Integral == 0 .. (Modulus - 1)
Wrap(x) == x % Modulus

Threads == 1 .. NThreads
Main == 1                          \* the counter of the hand-managed brokers
Counters == {1, 2}                 \* counter objects (wrapper w owns counter w)
Tags == {1, 2}                     \* values of the wrapper's Tag parameter
Slot(g, t) == (g - 1) * NThreads + t   \* thread_local slot of (Tag, thread)
Brokers == 1 .. (2 * NThreads)
Amounts == {1, 2}                  \* arguments of += and -=
ExchangeTo == {0, 3}               \* arguments of exchange
Initials == {1}                    \* arguments of the counter's constructor

VARIABLES
  counter_,   \* [Counters -> Integral]  distributable_counter::counter_
  brokers_,   \* [Counters -> Seq(Brokers)]  distributable_counter::brokers_
  mutex_,     \* [Counters -> Threads \cup {0}]  holder of mutex_, 0 = free
  alive,      \* [Counters -> BOOLEAN]  the counter object has not been destroyed
  value_,     \* [Brokers -> Integral]  counter_broker::value_
  parent,     \* [Brokers -> Counters \cup {0}]  counter_broker::counter_
  bstate,     \* [Brokers -> lifecycle state]
  pc,         \* [Threads -> position of the thread]
  cur,        \* [Threads -> counter the running call is on]
  bk,         \* [Threads -> broker the running call is on]
  cont,       \* [Threads -> position to continue at after a nested call]
  acc,        \* [Threads -> local accumulator / loaded value]
  it,         \* [Threads -> position of the range-for iterator]
  arg,        \* [Threads -> argument of the running call]
  ret,        \* [Threads -> last value returned to the thread]
  tag,        \* [Counters -> Tags]  Tag of the wrapper owning the counter
  ndebug,     \* BOOLEAN  the build defines NDEBUG
  fate,       \* "run", "abort" (assert failed), "ub" (dangling counter_ used)
              \* or "noreturn" (control ran off the end of a function)
  \* observation variables (no counterpart in the program)
  initial,    \* [Counters -> Integral]  constructor argument
  total,      \* [Counters -> Integral]  initial + applied - returned + installed
  nops,       \* number of calls issued
  limit,      \* number of calls the run may issue
  solo,       \* thread running with every other thread idle and silent, or 0
  prev,       \* what the solo thread has just completed
  snap,       \* residual + shard values when the solo exchange was called
  clean,      \* no exchange and no broker destruction has been called yet
  via,        \* [Threads -> counter the running += / -= is to be counted in]
  inner,      \* [Threads -> what the wrapped exchange returned inside the wrapper]
  trace       \* the amounts applied to each target, and what each load spanned

vars == <<counter_, brokers_, mutex_, alive, value_, parent, bstate, pc, cur,
          bk, cont, acc, it, arg, ret, tag, ndebug, fate, initial, total,
          nops, limit, solo, prev, snap, clean, via, inner, trace>>

progVars == <<counter_, brokers_, mutex_, alive, value_, parent, bstate>>

None == [stage |-> "none", to |-> NoValue]

\* ------------------------------------------------------------ helpers
RECURSIVE SumValues(_, _)
SumValues(seq, val) ==
  IF seq = <<>> THEN 0
  ELSE val[Head(seq)] + SumValues(Tail(seq), val)

\* residual plus the values of the registered brokers, read at one instant
Aggregate(c) == Wrap(counter_[c] + SumValues(brokers_[c], value_))

OthersIdle(t) == \A u \in Threads \ {t} : pc[u] \in {"idle", "exited"}

\* every other thread is idle or stopped inside a broker destructor, after
\* counter_+= value_.load() and before the lock_guard; at least one is there
Parked(t) ==
  /\ \A u \in Threads \ {t} : pc[u] \in {"idle", "exited", "dtor_lock"}
  /\ \E u \in Threads \ {t} : pc[u] = "dtor_lock"

\* the amounts the destructors stopped before their lock_guard have added to
\* the residual of counter c
RECURSIVE Flushed(_, _)
Flushed(S, c) ==
  IF S = {} THEN 0
  ELSE LET u == CHOOSE x \in S : TRUE
       IN  (IF pc[u] = "dtor_lock" /\ cur[u] = c THEN acc[u] ELSE 0)
           + Flushed(S \ {u}, c)

\* the residual and the values of the brokers no destructor has flushed
Unflushed(c) ==
  Wrap(counter_[c]
       + SumValues(SelectSeq(brokers_[c], LAMBDA b : bstate[b] # "flushed"),
                   value_))

\* ----------------------------------------------- the code's arithmetic
\* counter_.fetch_add(amount) / fetch_sub(amount)
FetchAdd(v, a) == Wrap(v + a)
FetchSub(v, a) == Wrap(v - a)
\* value_.load() + amount, value_.load() - amount
WeakAddDown(v, a) == Wrap(v - a)              \* variant: the body of -= pasted
WeakAdd(v, a) == Wrap(v + a)
WeakSub(v, a) == Wrap(v - a)
\* accumulator += broker.value_.load()
Accumulate(a, v) == Wrap(a + v)
\* return accumulator + counter_.load()
LoadResultShardsOnly(a, r) == a               \* variant: residual left out
LoadResult(a, r) == Wrap(a + r)
\* value_.store(v): the broker's own value is written, no other
StoreShared(val, b, v) == [x \in DOMAIN val |-> v]   \* variant: one shared cell
Store(val, b, v) == [val EXCEPT ![b] = v]
\* return old_value + counter_.exchange(to)
ExchangeResultShardsOnly(old, r) == old       \* variant: residual left out
ExchangeResult(old, r) == Wrap(old + r)

\* ------------------------------------------------- observation updates
\* the targets of += / -=: 0 is the residual of Main, b is broker b
Targets == {0} \cup Brokers

NoTrace ==
  [on |-> FALSE,
   hist |-> [x \in Targets |-> <<>>],
   from |-> [t \in Threads |-> [x \in Targets |-> 0]],
   upto |-> [t \in Threads |-> [x \in Targets |-> 0]],
   seen |-> [t \in Threads |-> FALSE],
   inst |-> [t \in Threads |-> {}]]

\* how many amounts each target has received so far
Marks == [x \in Targets |-> Len(trace.hist[x])]

\* amount a reaches target x (fetch_add / fetch_sub on the residual, store on
\* a broker); the loads in progress pass through the instant with total now
Applied(x, a, now) ==
  IF trace.on
  THEN [trace EXCEPT
          !.hist[x] = Append(@, a),
          !.inst = [t \in Threads |->
                      IF pc[t] \in {"load_lock", "load_iter", "load_sum"}
                      THEN @[t] \cup {now} ELSE @[t]]]
  ELSE trace

\* thread t calls load on c / load returns to thread t
Began(t, c) ==
  IF trace.on /\ c = Main
  THEN [trace EXCEPT !.from[t] = Marks, !.upto[t] = Marks, !.seen[t] = FALSE,
                     !.inst[t] = {total[c]}]
  ELSE trace
Returned(t) ==
  IF trace.on
  THEN [trace EXCEPT !.upto[t] = Marks, !.seen[t] = TRUE]
  ELSE trace

\* a step of thread t inside a call
Inside(t) ==
  /\ solo' = IF solo = t THEN t ELSE 0
  /\ prev' = IF solo = t THEN prev ELSE None
  /\ snap' = IF solo = t THEN snap ELSE NoValue
  /\ UNCHANGED <<clean, initial, nops, limit>>

\* thread t issues a call; a result it held is consumed unless it loads again
Issue(t, isLoad, dirty) ==
  /\ nops < limit
  /\ nops' = nops + 1
  /\ solo' = IF OthersIdle(t) \/ Parked(t) THEN t ELSE 0
  /\ prev' = IF solo = t /\ isLoad /\ prev.stage = "exchanged"
             THEN [stage |-> "reloading", to |-> prev.to]
             ELSE IF Parked(t) THEN [stage |-> "window", to |-> NoValue]
             ELSE None
  /\ clean' = (clean /\ ~dirty)
  /\ UNCHANGED <<initial, limit>>

\* what the counter holds when t calls with destructors stopped in front of
\* their lock_guard: the true total plus what they flushed, recorded when the
\* residual and the brokers not flushed add up to the true total
WindowView(t, c) ==
  IF Parked(t) /\ Unflushed(c) = total[c]
  THEN Wrap(total[c] + Flushed(Threads \ {t}, c))
  ELSE NoValue

Consume(t, isLoad) == IF isLoad THEN ret ELSE [ret EXCEPT ![t] = NoValue]

\* ------------------------------------------------------------- Init
Init ==
  /\ initial \in [Counters -> Initials]
  /\ counter_ = initial
  /\ total = initial
  /\ brokers_ = [c \in Counters |-> <<>>]
  /\ mutex_ = [c \in Counters |-> 0]
  /\ alive = [c \in Counters |-> TRUE]
  /\ value_ = [b \in Brokers |-> 0]
  /\ parent = [b \in Brokers |-> 0]
  /\ bstate = [b \in Brokers |-> "none"]
  /\ pc = [t \in Threads |-> "idle"]
  /\ cur = [t \in Threads |-> Main]
  /\ bk = [t \in Threads |-> t]
  /\ cont = [t \in Threads |-> "idle"]
  /\ acc = [t \in Threads |-> 0]
  /\ it = [t \in Threads |-> 1]
  /\ arg = [t \in Threads |-> 0]
  /\ ret = [t \in Threads |-> NoValue]
  /\ tag = [c \in Counters |-> 1]
  /\ ndebug = FALSE
  /\ fate = "run"
  /\ nops = 0
  /\ limit = MaxOps
  /\ solo = 0
  /\ prev = None
  /\ snap = NoValue
  /\ clean = TRUE
  /\ via = [t \in Threads |-> Main]
  /\ inner = [t \in Threads |-> NoValue]
  /\ trace = NoTrace

\* ------------------------------------- distributable_counter += / -=
DirectAdd(t, c, a) ==
  /\ pc[t] = "idle" /\ alive[c] /\ fate = "run"
  /\ Issue(t, FALSE, FALSE)
  /\ counter_' = [counter_ EXCEPT ![c] = FetchAdd(@, a)]
  /\ total' = [total EXCEPT ![c] = Wrap(@ + a)]
  /\ snap' = NoValue
  /\ ret' = Consume(t, FALSE)
  /\ UNCHANGED <<brokers_, mutex_, alive, value_, parent, bstate, pc, cur, bk,
                 cont, acc, it, arg, tag, ndebug, fate, via, inner>>
  /\ trace' = IF c = Main THEN Applied(0, a, Wrap(total[c] + a)) ELSE trace

DirectSub(t, c, a) ==
  /\ pc[t] = "idle" /\ alive[c] /\ fate = "run"
  /\ Issue(t, FALSE, FALSE)
  /\ counter_' = [counter_ EXCEPT ![c] = FetchSub(@, a)]
  /\ total' = [total EXCEPT ![c] = Wrap(@ - a)]
  /\ snap' = NoValue
  /\ ret' = Consume(t, FALSE)
  /\ UNCHANGED <<brokers_, mutex_, alive, value_, parent, bstate, pc, cur, bk,
                 cont, acc, it, arg, tag, ndebug, fate, via, inner>>
  /\ trace' = IF c = Main THEN Applied(0, Wrap(0 - a), Wrap(total[c] - a)) ELSE trace

\* ------------------------------------------ counter_broker constructor
\* counter_(counter): the reference is bound before the body runs
CallCtor(t, b, c) ==
  /\ pc[t] = "idle" /\ bstate[b] = "none" /\ alive[c] /\ fate = "run"
  /\ Issue(t, FALSE, FALSE)
  /\ parent' = [parent EXCEPT ![b] = c]
  /\ bstate' = [bstate EXCEPT ![b] = "constructing"]
  /\ pc' = [pc EXCEPT ![t] = "ctor_lock"]
  /\ bk' = [bk EXCEPT ![t] = b]
  /\ cur' = [cur EXCEPT ![t] = c]
  /\ cont' = [cont EXCEPT ![t] = "idle"]
  /\ snap' = NoValue
  /\ ret' = Consume(t, FALSE)
  /\ UNCHANGED <<counter_, brokers_, mutex_, alive, value_, acc, it, arg, tag, ndebug, fate, total, via, inner>>
  /\ UNCHANGED trace

\* std::lock_guard<std::mutex> _(counter.mutex_)
\* variant: a constructor that does not wait for the mutex
CtorLockNoWait(t) ==
  /\ pc[t] = "ctor_lock" /\ fate = "run"
  /\ mutex_' = [mutex_ EXCEPT ![cur[t]] = t]
  /\ pc' = [pc EXCEPT ![t] = "ctor_push"]
  /\ Inside(t)
  /\ UNCHANGED <<counter_, brokers_, alive, value_, parent, bstate, cur, bk,
                 cont, acc, it, arg, ret, tag, ndebug, fate, total, via, inner>>
  /\ UNCHANGED trace

CtorLock(t) ==
  /\ pc[t] = "ctor_lock" /\ fate = "run"
  /\ mutex_[cur[t]] = 0
  /\ mutex_' = [mutex_ EXCEPT ![cur[t]] = t]
  /\ pc' = [pc EXCEPT ![t] = "ctor_push"]
  /\ Inside(t)
  /\ UNCHANGED <<counter_, brokers_, alive, value_, parent, bstate, cur, bk,
                 cont, acc, it, arg, ret, tag, ndebug, fate, total, via, inner>>
  /\ UNCHANGED trace

\* counter.brokers_.push_back(*this); the guard releases the mutex
\* variant: a constructor that leaves the list as it is
CtorPushUnlisted(t) ==
  /\ pc[t] = "ctor_push" /\ fate = "run"
  /\ mutex_' = [mutex_ EXCEPT ![cur[t]] = 0]
  /\ bstate' = [bstate EXCEPT ![bk[t]] = "registered"]
  /\ pc' = [pc EXCEPT ![t] = cont[t]]
  /\ cont' = [cont EXCEPT ![t] = "idle"]
  /\ Inside(t)
  /\ UNCHANGED <<counter_, brokers_, alive, value_, parent, cur, bk, acc, it,
                 arg, ret, tag, ndebug, fate, total, via, inner>>
  /\ UNCHANGED trace

CtorPush(t) ==
  /\ pc[t] = "ctor_push" /\ fate = "run"
  /\ brokers_' = [brokers_ EXCEPT ![cur[t]] = Append(@, bk[t])]
  /\ mutex_' = [mutex_ EXCEPT ![cur[t]] = 0]
  /\ bstate' = [bstate EXCEPT ![bk[t]] = "registered"]
  /\ pc' = [pc EXCEPT ![t] = cont[t]]
  /\ cont' = [cont EXCEPT ![t] = "idle"]
  /\ Inside(t)
  /\ UNCHANGED <<counter_, alive, value_, parent, cur, bk, acc, it, arg,
                 ret, tag, ndebug, fate, total, via, inner>>
  /\ UNCHANGED trace

\* ---------------------------------------------- counter_broker += / -=
\* value_.load(std::memory_order_relaxed) + amount
BrokerAddLoad(t, b, a) ==
  /\ pc[t] = "idle" /\ bstate[b] = "registered" /\ fate = "run"
  /\ Issue(t, FALSE, FALSE)
  /\ acc' = [acc EXCEPT ![t] = WeakAdd(value_[b], a)]
  /\ pc' = [pc EXCEPT ![t] = "add_store"]
  /\ bk' = [bk EXCEPT ![t] = b]
  /\ arg' = [arg EXCEPT ![t] = a]
  /\ via' = [via EXCEPT ![t] = parent[b]]
  /\ snap' = NoValue
  /\ ret' = Consume(t, FALSE)
  /\ UNCHANGED <<progVars, cur, cont, it, tag, ndebug, fate, total,
                 inner>>
  /\ UNCHANGED trace

\* value_.load(std::memory_order_relaxed) - amount
BrokerSubLoad(t, b, a) ==
  /\ pc[t] = "idle" /\ bstate[b] = "registered" /\ fate = "run"
  /\ Issue(t, FALSE, FALSE)
  /\ acc' = [acc EXCEPT ![t] = WeakSub(value_[b], a)]
  /\ pc' = [pc EXCEPT ![t] = "sub_store"]
  /\ bk' = [bk EXCEPT ![t] = b]
  /\ arg' = [arg EXCEPT ![t] = a]
  /\ via' = [via EXCEPT ![t] = parent[b]]
  /\ snap' = NoValue
  /\ ret' = Consume(t, FALSE)
  /\ UNCHANGED <<progVars, cur, cont, it, tag, ndebug, fate, total,
                 inner>>
  /\ UNCHANGED trace

\* value_.store(..., std::memory_order_relaxed)
\* variant: a store that waits until nobody holds the counter's mutex
BrokerAddStoreLocked(t) ==
  /\ pc[t] = "add_store" /\ fate = "run"
  /\ mutex_[parent[bk[t]]] = 0
  /\ value_' = Store(value_, bk[t], acc[t])
  /\ total' = [total EXCEPT ![via[t]] = Wrap(@ + arg[t])]
  /\ pc' = [pc EXCEPT ![t] = "idle"]
  /\ Inside(t)
  /\ acc' = [acc EXCEPT ![t] = 0]
  /\ arg' = [arg EXCEPT ![t] = 0]
  /\ UNCHANGED <<counter_, brokers_, mutex_, alive, parent, bstate, cur, bk,
                 cont, it, ret, tag, ndebug, fate, via, inner>>
  /\ trace' = Applied(bk[t], arg[t], Wrap(total[via[t]] + arg[t]))

BrokerAddStore(t) ==
  /\ pc[t] = "add_store" /\ fate = "run"
  /\ value_' = Store(value_, bk[t], acc[t])
  /\ total' = [total EXCEPT ![via[t]] = Wrap(@ + arg[t])]
  /\ pc' = [pc EXCEPT ![t] = "idle"]
  /\ Inside(t)
  /\ acc' = [acc EXCEPT ![t] = 0]
  /\ arg' = [arg EXCEPT ![t] = 0]
  /\ UNCHANGED <<counter_, brokers_, mutex_, alive, parent, bstate, cur, bk,
                 cont, it, ret, tag, ndebug, fate, via, inner>>
  /\ trace' = Applied(bk[t], arg[t], Wrap(total[via[t]] + arg[t]))

BrokerSubStore(t) ==
  /\ pc[t] = "sub_store" /\ fate = "run"
  /\ value_' = Store(value_, bk[t], acc[t])
  /\ total' = [total EXCEPT ![via[t]] = Wrap(@ - arg[t])]
  /\ pc' = [pc EXCEPT ![t] = "idle"]
  /\ Inside(t)
  /\ acc' = [acc EXCEPT ![t] = 0]
  /\ arg' = [arg EXCEPT ![t] = 0]
  /\ UNCHANGED <<counter_, brokers_, mutex_, alive, parent, bstate, cur, bk,
                 cont, it, ret, tag, ndebug, fate, via, inner>>
  /\ trace' = Applied(bk[t], Wrap(0 - arg[t]), Wrap(total[via[t]] - arg[t]))

\* ------------------------------------------- counter_broker destructor
\* value_.load(std::memory_order_relaxed), the argument of counter_ +=
DtorRead(t, b) ==
  /\ pc[t] = "idle" /\ bstate[b] = "registered" /\ fate = "run"
  /\ Issue(t, FALSE, TRUE)
  /\ acc' = [acc EXCEPT ![t] = value_[b]]
  /\ bstate' = [bstate EXCEPT ![b] = "destructing"]
  /\ pc' = [pc EXCEPT ![t] = "dtor_flush"]
  /\ bk' = [bk EXCEPT ![t] = b]
  /\ cur' = [cur EXCEPT ![t] = parent[b]]
  /\ cont' = [cont EXCEPT ![t] = "idle"]
  /\ snap' = NoValue
  /\ ret' = Consume(t, FALSE)
  /\ UNCHANGED <<counter_, brokers_, mutex_, alive, value_, parent, it, arg,
                 tag, ndebug, fate, total, via, inner>>
  /\ UNCHANGED trace

\* counter_ += ...: fetch_add on the parent's residual
\* variant: a destructor that empties the broker as it flushes it
DtorFlushDraining(t) ==
  /\ pc[t] = "dtor_flush" /\ fate = "run"
  /\ alive[cur[t]]
  /\ counter_' = [counter_ EXCEPT ![cur[t]] = FetchAdd(@, acc[t])]
  /\ value_' = [value_ EXCEPT ![bk[t]] = 0]
  /\ bstate' = [bstate EXCEPT ![bk[t]] = "flushed"]
  /\ pc' = [pc EXCEPT ![t] = "dtor_lock"]
  /\ Inside(t)
  /\ UNCHANGED <<brokers_, mutex_, alive, parent, cur, bk, cont, acc,
                 it, arg, ret, tag, ndebug, fate, total, via, inner>>
  /\ UNCHANGED trace

DtorFlush(t) ==
  /\ pc[t] = "dtor_flush" /\ fate = "run"
  /\ alive[cur[t]]
  /\ counter_' = [counter_ EXCEPT ![cur[t]] = FetchAdd(@, acc[t])]
  /\ bstate' = [bstate EXCEPT ![bk[t]] = "flushed"]
  /\ pc' = [pc EXCEPT ![t] = "dtor_lock"]
  /\ Inside(t)
  /\ UNCHANGED <<brokers_, mutex_, alive, value_, parent, cur, bk, cont, acc,
                 it, arg, ret, tag, ndebug, fate, total, via, inner>>
  /\ UNCHANGED trace

\* std::lock_guard<std::mutex> _(counter_.mutex_)
DtorLock(t) ==
  /\ pc[t] = "dtor_lock" /\ fate = "run"
  /\ alive[cur[t]]
  /\ mutex_[cur[t]] = 0
  /\ mutex_' = [mutex_ EXCEPT ![cur[t]] = t]
  /\ pc' = [pc EXCEPT ![t] = "dtor_remove"]
  /\ Inside(t)
  /\ UNCHANGED <<counter_, brokers_, alive, value_, parent, bstate, cur, bk,
                 cont, acc, it, arg, ret, tag, ndebug, fate, total, via, inner>>
  /\ UNCHANGED trace

\* counter_.brokers_.remove(*this); the guard releases the mutex
\* variant: a destructor that leaves the broker in the list
DtorRemoveKeeps(t) ==
  /\ pc[t] = "dtor_remove" /\ fate = "run"
  /\ alive[cur[t]]
  /\ mutex_' = [mutex_ EXCEPT ![cur[t]] = 0]
  /\ bstate' = [bstate EXCEPT ![bk[t]] = "destroyed"]
  /\ pc' = [pc EXCEPT ![t] = cont[t]]
  /\ Inside(t)
  /\ acc' = [acc EXCEPT ![t] = 0]
  /\ UNCHANGED <<counter_, brokers_, alive, value_, parent, cur, bk, cont, it,
                 arg, ret, tag, ndebug, fate, total, via, inner>>
  /\ UNCHANGED trace

DtorRemove(t) ==
  /\ pc[t] = "dtor_remove" /\ fate = "run"
  /\ alive[cur[t]]
  /\ brokers_' = [brokers_ EXCEPT ![cur[t]] =
                    SelectSeq(@, LAMBDA x : x # bk[t])]
  /\ mutex_' = [mutex_ EXCEPT ![cur[t]] = 0]
  /\ bstate' = [bstate EXCEPT ![bk[t]] = "destroyed"]
  /\ pc' = [pc EXCEPT ![t] = cont[t]]
  /\ Inside(t)
  /\ acc' = [acc EXCEPT ![t] = 0]
  /\ UNCHANGED <<counter_, alive, value_, parent, cur, bk, cont, it, arg,
                 ret, tag, ndebug, fate, total, via, inner>>
  /\ UNCHANGED trace

\* ------------------------------------------ distributable_counter::load
\* Integral accumulator= 0
CallLoad(t, c) ==
  /\ pc[t] = "idle" /\ alive[c] /\ fate = "run"
  /\ Issue(t, TRUE, FALSE)
  /\ pc' = [pc EXCEPT ![t] = "load_lock"]
  /\ cur' = [cur EXCEPT ![t] = c]
  /\ acc' = [acc EXCEPT ![t] = 0]
  /\ snap' = WindowView(t, c)
  /\ ret' = Consume(t, TRUE)
  /\ inner' = [inner EXCEPT ![t] = NoValue]
  /\ UNCHANGED <<progVars, bk, cont, it, arg, tag, ndebug, fate, total,
                 via>>
  /\ trace' = Began(t, c)

\* std::lock_guard<std::mutex> _(mutex_); brokers_.begin()
LoadLock(t) ==
  /\ pc[t] = "load_lock" /\ fate = "run"
  /\ mutex_[cur[t]] = 0
  /\ mutex_' = [mutex_ EXCEPT ![cur[t]] = t]
  /\ it' = [it EXCEPT ![t] = 1]
  /\ pc' = [pc EXCEPT ![t] = "load_iter"]
  /\ Inside(t)
  /\ UNCHANGED <<counter_, brokers_, alive, value_, parent, bstate, cur, bk,
                 cont, acc, arg, ret, tag, ndebug, fate, total, via, inner>>
  /\ UNCHANGED trace

\* accumulator+= broker.value_.load(std::memory_order_relaxed)
\* variant: the loop body of exchange pasted into load
LoadIterDraining(t) ==
  /\ pc[t] = "load_iter" /\ fate = "run"
  /\ it[t] <= Len(brokers_[cur[t]])
  /\ acc' = [acc EXCEPT ![t] = Accumulate(@, value_[brokers_[cur[t]][it[t]]])]
  /\ value_' = [value_ EXCEPT ![brokers_[cur[t]][it[t]]] = 0]
  /\ it' = [it EXCEPT ![t] = @ + 1]
  /\ Inside(t)
  /\ UNCHANGED <<counter_, brokers_, mutex_, alive, parent, bstate, pc, cur,
                 bk, cont, arg, ret, tag, ndebug, fate, total, via, inner>>
  /\ UNCHANGED trace

LoadIter(t) ==
  /\ pc[t] = "load_iter" /\ fate = "run"
  /\ it[t] <= Len(brokers_[cur[t]])
  /\ acc' = [acc EXCEPT ![t] = Accumulate(@, value_[brokers_[cur[t]][it[t]]])]
  /\ it' = [it EXCEPT ![t] = @ + 1]
  /\ Inside(t)
  /\ UNCHANGED <<progVars, pc, cur, bk, cont, arg, ret, tag, ndebug, fate,
                 total, via, inner>>
  /\ UNCHANGED trace

\* end of the loop: the guard's scope ends
\* variant: load returns without mutex_.unlock()
LoadLeaveLocked(t) ==
  /\ pc[t] = "load_iter" /\ fate = "run"
  /\ it[t] > Len(brokers_[cur[t]])
  /\ pc' = [pc EXCEPT ![t] = "load_sum"]
  /\ Inside(t)
  /\ UNCHANGED <<progVars, cur, bk, cont, acc, it, arg, ret, tag, ndebug,
                 fate, total, via, inner>>
  /\ UNCHANGED trace

LoadUnlock(t) ==
  /\ pc[t] = "load_iter" /\ fate = "run"
  /\ it[t] > Len(brokers_[cur[t]])
  /\ mutex_' = [mutex_ EXCEPT ![cur[t]] = 0]
  /\ pc' = [pc EXCEPT ![t] = "load_sum"]
  /\ Inside(t)
  /\ UNCHANGED <<counter_, brokers_, alive, value_, parent, bstate, cur, bk,
                 cont, acc, it, arg, ret, tag, ndebug, fate, total, via, inner>>
  /\ UNCHANGED trace

\* return accumulator + counter_.load(std::memory_order_relaxed)
LoadReturn(t) ==
  /\ pc[t] = "load_sum" /\ fate = "run"
  /\ ret' = [ret EXCEPT ![t] = LoadResult(acc[t], counter_[cur[t]])]
  /\ pc' = [pc EXCEPT ![t] = "idle"]
  /\ solo' = IF solo = t THEN t ELSE 0
  /\ prev' = IF solo = t
             THEN [stage |-> IF prev.stage = "reloading" THEN "reloaded"
                             ELSE IF prev.stage = "window" THEN "window_loaded"
                             ELSE "loaded",
                   to |-> prev.to]
             ELSE None
  /\ snap' = IF solo = t /\ prev.stage = "window" THEN snap ELSE NoValue
  /\ UNCHANGED <<clean, initial, nops, limit>>
  /\ acc' = [acc EXCEPT ![t] = 0]
  /\ it' = [it EXCEPT ![t] = 1]
  /\ UNCHANGED <<progVars, cur, bk, cont, arg, tag, ndebug, fate,
                 total, via, inner>>
  /\ trace' = Returned(t)

\* -------------------------------------- distributable_counter::exchange
\* Integral old_value= 0
CallExchange(t, c, to) ==
  /\ pc[t] = "idle" /\ alive[c] /\ fate = "run"
  /\ Issue(t, FALSE, TRUE)
  /\ pc' = [pc EXCEPT ![t] = "xchg_lock"]
  /\ cur' = [cur EXCEPT ![t] = c]
  /\ acc' = [acc EXCEPT ![t] = 0]
  /\ arg' = [arg EXCEPT ![t] = to]
  /\ ret' = Consume(t, FALSE)
  /\ snap' = IF OthersIdle(t) THEN Aggregate(c) ELSE WindowView(t, c)
  /\ UNCHANGED <<progVars, bk, cont, it, tag, ndebug, fate, total, via, inner>>
  /\ UNCHANGED trace

ExchangeLock(t) ==
  /\ pc[t] = "xchg_lock" /\ fate = "run"
  /\ mutex_[cur[t]] = 0
  /\ mutex_' = [mutex_ EXCEPT ![cur[t]] = t]
  /\ it' = [it EXCEPT ![t] = 1]
  /\ pc' = [pc EXCEPT ![t] = "xchg_iter"]
  /\ Inside(t)
  /\ UNCHANGED <<counter_, brokers_, alive, value_, parent, bstate, cur, bk,
                 cont, acc, arg, ret, tag, ndebug, fate, total, via, inner>>
  /\ UNCHANGED trace

\* old_value+= broker.value_.exchange(0, std::memory_order_relaxed)
ExchangeIter(t) ==
  /\ pc[t] = "xchg_iter" /\ fate = "run"
  /\ it[t] <= Len(brokers_[cur[t]])
  /\ acc' = [acc EXCEPT ![t] = Accumulate(@, value_[brokers_[cur[t]][it[t]]])]
  /\ value_' = [value_ EXCEPT ![brokers_[cur[t]][it[t]]] = 0]
  /\ it' = [it EXCEPT ![t] = @ + 1]
  /\ Inside(t)
  /\ UNCHANGED <<counter_, brokers_, mutex_, alive, parent, bstate, pc, cur,
                 bk, cont, arg, ret, tag, ndebug, fate, total, via, inner>>
  /\ UNCHANGED trace

ExchangeUnlock(t) ==
  /\ pc[t] = "xchg_iter" /\ fate = "run"
  /\ it[t] > Len(brokers_[cur[t]])
  /\ mutex_' = [mutex_ EXCEPT ![cur[t]] = 0]
  /\ pc' = [pc EXCEPT ![t] = "xchg_swap"]
  /\ Inside(t)
  /\ UNCHANGED <<counter_, brokers_, alive, value_, parent, bstate, cur, bk,
                 cont, acc, it, arg, ret, tag, ndebug, fate, total, via, inner>>
  /\ UNCHANGED trace

\* return old_value + counter_.exchange(to, std::memory_order_relaxed)
ExchangeReturn(t) ==
  /\ pc[t] = "xchg_swap" /\ fate = "run"
  /\ ret' = [ret EXCEPT ![t] = ExchangeResult(acc[t], counter_[cur[t]])]
  /\ counter_' = [counter_ EXCEPT ![cur[t]] = arg[t]]
  /\ total' = [total EXCEPT ![cur[t]] =
                 Wrap(@ - ExchangeResult(acc[t], counter_[cur[t]]) + arg[t])]
  /\ pc' = [pc EXCEPT ![t] = cont[t]]
  /\ cont' = [cont EXCEPT ![t] = "idle"]
  /\ solo' = IF solo = t THEN t ELSE 0
  /\ prev' = IF solo = t
             THEN [stage |-> IF prev.stage = "window" THEN "window_exchanged"
                             ELSE "exchanged",
                   to |-> arg[t]]
             ELSE None
  /\ snap' = IF solo = t THEN snap ELSE NoValue
  /\ UNCHANGED <<clean, initial, nops, limit>>
  /\ acc' = [acc EXCEPT ![t] = 0]
  /\ it' = [it EXCEPT ![t] = 1]
  /\ arg' = [arg EXCEPT ![t] = 0]
  /\ UNCHANGED <<brokers_, mutex_, alive, value_, parent, bstate, cur, bk,
                 tag, ndebug, fate, via, inner>>
  /\ UNCHANGED trace

\* ------------------------------------------------------ specification
\* One counter; thread t owns the broker t, a local variable of the thread.
Next ==
  \E t \in Threads :
    \/ \E a \in Amounts : DirectAdd(t, Main, a)
    \/ \E a \in Amounts : DirectSub(t, Main, a)
    \/ CallCtor(t, t, Main)
    \/ CtorLock(t)
    \/ CtorPush(t)
    \/ \E a \in Amounts : BrokerAddLoad(t, t, a)
    \/ \E a \in Amounts : BrokerSubLoad(t, t, a)
    \/ BrokerAddStore(t)
    \/ BrokerSubStore(t)
    \/ DtorRead(t, t)
    \/ DtorFlush(t)
    \/ DtorLock(t)
    \/ DtorRemove(t)
    \/ CallLoad(t, Main)
    \/ LoadLock(t)
    \/ LoadIter(t)
    \/ LoadUnlock(t)
    \/ LoadReturn(t)
    \/ \E to \in ExchangeTo : CallExchange(t, Main, to)
    \/ ExchangeLock(t)
    \/ ExchangeIter(t)
    \/ ExchangeUnlock(t)
    \/ ExchangeReturn(t)

Spec == Init /\ [][Next]_vars

\* -------------------------------------------------- operator++ of a broker
\* { *this+= 1; }
Increment(t, b) == BrokerAddLoad(t, b, 1)

\* One counter; brokers only incremented, never destroyed; no exchange.  The
\* increments applied to each broker are recorded.
InitIncrements ==
  /\ initial \in [Counters -> Initials]
  /\ counter_ = initial
  /\ total = initial
  /\ brokers_ = [c \in Counters |-> <<>>]
  /\ mutex_ = [c \in Counters |-> 0]
  /\ alive = [c \in Counters |-> TRUE]
  /\ value_ = [b \in Brokers |-> 0]
  /\ parent = [b \in Brokers |-> 0]
  /\ bstate = [b \in Brokers |-> "none"]
  /\ pc = [t \in Threads |-> "idle"]
  /\ cur = [t \in Threads |-> Main]
  /\ bk = [t \in Threads |-> t]
  /\ cont = [t \in Threads |-> "idle"]
  /\ acc = [t \in Threads |-> 0]
  /\ it = [t \in Threads |-> 1]
  /\ arg = [t \in Threads |-> 0]
  /\ ret = [t \in Threads |-> NoValue]
  /\ tag = [c \in Counters |-> 1]
  /\ ndebug = FALSE
  /\ fate = "run"
  /\ nops = 0
  /\ limit = MaxIncrementOps
  /\ solo = 0
  /\ prev = None
  /\ snap = NoValue
  /\ clean = TRUE
  /\ via = [t \in Threads |-> Main]
  /\ inner = [t \in Threads |-> NoValue]
  /\ trace = [NoTrace EXCEPT !.on = TRUE]

NextIncrements ==
  \E t \in Threads :
    \/ CallCtor(t, t, Main)
    \/ CtorLock(t)
    \/ CtorPush(t)
    \/ Increment(t, t)
    \/ BrokerAddStore(t)
    \/ CallLoad(t, Main)
    \/ LoadLock(t)
    \/ LoadIter(t)
    \/ LoadUnlock(t)
    \/ LoadReturn(t)

SpecIncrements == InitIncrements /\ [][NextIncrements]_vars

\* ------------------------------------------------ tls_distributed_counter
\* Wrapper w owns the counter w (global_).  local() holds one thread_local
\* broker per instantiation of the member function, that is per (Integral,
\* Tag) and thread: the slot Slot(tag[w], t).  Its initializer runs the first
\* time the thread passes the declaration, with the global_ of the wrapper
\* it was called on.
\* the wrapper whose member function thread t is executing, 0 if none:
\* load and exchange run on the counter they were called on, += / -= (and the
\* construction of the thread_local broker inside local()) on the wrapper
\* they were called through
CalledOn(t) ==
  IF pc[t] \in {"load_lock", "load_iter", "load_sum", "xchg_lock",
                "xchg_iter", "xchg_swap", "wrapper_end"}
  THEN cur[t]
  ELSE IF pc[t] \in {"ctor_lock", "ctor_push", "add_load", "sub_load",
                     "add_store", "sub_store"}
  THEN via[t]
  ELSE 0

NoCallOn(w) == \A t \in Threads : CalledOn(t) # w

\* operator+=(amount) { local()+= amount; }: the call and local()
WrapperAdd(t, w, a) ==
  LET b == Slot(tag[w], t) IN
  /\ pc[t] = "idle" /\ alive[w] /\ fate = "run"
  /\ bstate[b] \in {"none", "registered"}
  /\ Issue(t, FALSE, FALSE)
  /\ bk' = [bk EXCEPT ![t] = b]
  /\ arg' = [arg EXCEPT ![t] = a]
  /\ via' = [via EXCEPT ![t] = w]
  /\ snap' = NoValue
  /\ ret' = Consume(t, FALSE)
  /\ inner' = [inner EXCEPT ![t] = NoValue]
  /\ IF bstate[b] = "none"
     THEN /\ parent' = [parent EXCEPT ![b] = w]
          /\ bstate' = [bstate EXCEPT ![b] = "constructing"]
          /\ cur' = [cur EXCEPT ![t] = w]
          /\ pc' = [pc EXCEPT ![t] = "ctor_lock"]
          /\ cont' = [cont EXCEPT ![t] = "add_load"]
     ELSE /\ pc' = [pc EXCEPT ![t] = "add_load"]
          /\ UNCHANGED <<parent, bstate, cur, cont>>
  /\ UNCHANGED <<counter_, brokers_, mutex_, alive, value_, acc, it, tag,
                 ndebug, fate, total>>
  /\ UNCHANGED trace

\* operator-=(amount) { local()-= amount; }: the call and local()
WrapperSub(t, w, a) ==
  LET b == Slot(tag[w], t) IN
  /\ pc[t] = "idle" /\ alive[w] /\ fate = "run"
  /\ bstate[b] \in {"none", "registered"}
  /\ Issue(t, FALSE, FALSE)
  /\ bk' = [bk EXCEPT ![t] = b]
  /\ arg' = [arg EXCEPT ![t] = a]
  /\ via' = [via EXCEPT ![t] = w]
  /\ snap' = NoValue
  /\ ret' = Consume(t, FALSE)
  /\ inner' = [inner EXCEPT ![t] = NoValue]
  /\ IF bstate[b] = "none"
     THEN /\ parent' = [parent EXCEPT ![b] = w]
          /\ bstate' = [bstate EXCEPT ![b] = "constructing"]
          /\ cur' = [cur EXCEPT ![t] = w]
          /\ pc' = [pc EXCEPT ![t] = "ctor_lock"]
          /\ cont' = [cont EXCEPT ![t] = "sub_load"]
     ELSE /\ pc' = [pc EXCEPT ![t] = "sub_load"]
          /\ UNCHANGED <<parent, bstate, cur, cont>>
  /\ UNCHANGED <<counter_, brokers_, mutex_, alive, value_, acc, it, tag,
                 ndebug, fate, total>>
  /\ UNCHANGED trace

\* the broker's += on the reference local() returned: value_.load() + amount
LocalAddLoad(t) ==
  /\ pc[t] = "add_load" /\ fate = "run"
  /\ acc' = [acc EXCEPT ![t] = WeakAdd(value_[bk[t]], arg[t])]
  /\ pc' = [pc EXCEPT ![t] = "add_store"]
  /\ Inside(t)
  /\ UNCHANGED <<progVars, cur, bk, cont, it, arg, ret, tag, ndebug, fate,
                 total, via, inner>>
  /\ UNCHANGED trace

\* the broker's -= on the reference local() returned: value_.load() - amount
LocalSubLoad(t) ==
  /\ pc[t] = "sub_load" /\ fate = "run"
  /\ acc' = [acc EXCEPT ![t] = WeakSub(value_[bk[t]], arg[t])]
  /\ pc' = [pc EXCEPT ![t] = "sub_store"]
  /\ Inside(t)
  /\ UNCHANGED <<progVars, cur, bk, cont, it, arg, ret, tag, ndebug, fate,
                 total, via, inner>>
  /\ UNCHANGED trace

\* Integral load() { return global_.load(); }
WrapperLoad(t, w) ==
  /\ CallLoad(t, w)

\* Integral exchange(Integral to) { global_.exchange(to); }: the call
WrapperExchange(t, w, to) ==
  /\ pc[t] = "idle" /\ alive[w] /\ fate = "run"
  /\ Issue(t, FALSE, TRUE)
  /\ pc' = [pc EXCEPT ![t] = "xchg_lock"]
  /\ cont' = [cont EXCEPT ![t] = "wrapper_end"]
  /\ cur' = [cur EXCEPT ![t] = w]
  /\ acc' = [acc EXCEPT ![t] = 0]
  /\ arg' = [arg EXCEPT ![t] = to]
  /\ ret' = Consume(t, FALSE)
  /\ inner' = [inner EXCEPT ![t] = NoValue]
  /\ snap' = NoValue
  /\ UNCHANGED <<progVars, bk, it, tag, ndebug, fate, total, via>>
  /\ UNCHANGED trace

\* ... global_.exchange(to); }: control flows off the end of a function
\* returning Integral.  No return statement is executed, the behaviour is
\* undefined: either the call returns and the caller receives any Integral
\* (unoptimised builds), or control runs past the end of the function and the
\* call never returns to its caller (optimised builds: the compiler treats
\* the end as unreachable, the process crashes or the thread hangs).
WrapperExchangeEnd(t) ==
  /\ pc[t] = "wrapper_end" /\ fate = "run"
  /\ \/ /\ inner' = [inner EXCEPT ![t] = ret[t]]
        /\ \E v \in Integral : ret' = [ret EXCEPT ![t] = v]
        /\ pc' = [pc EXCEPT ![t] = "idle"]
        /\ fate' = fate
     \/ /\ fate' = "noreturn"
        /\ UNCHANGED <<inner, ret, pc>>
  /\ solo' = IF solo = t THEN t ELSE 0
  /\ prev' = None
  /\ snap' = NoValue
  /\ UNCHANGED <<progVars, cur, bk, cont, acc, it, arg, tag, ndebug,
                 total, via, initial, nops, limit, clean>>
  /\ UNCHANGED trace

\* the thread returns from its function: its thread_local objects are
\* destroyed
ThreadExit(t) ==
  /\ pc[t] = "idle" /\ fate = "run"
  /\ Issue(t, FALSE, TRUE)
  /\ pc' = [pc EXCEPT ![t] = "exiting"]
  /\ ret' = Consume(t, FALSE)
  /\ inner' = [inner EXCEPT ![t] = NoValue]
  /\ snap' = NoValue
  /\ UNCHANGED <<progVars, cur, bk, cont, acc, it, arg, tag, ndebug, fate,
                 total, via>>
  /\ UNCHANGED trace

\* ~counter_broker of the thread_local broker of tag g (the order among the
\* thread's brokers is left open):
\* value_.load(std::memory_order_relaxed), the argument of counter_ +=
ExitDtorRead(t, g) ==
  LET b == Slot(g, t) IN
  /\ pc[t] = "exiting" /\ bstate[b] = "registered" /\ fate = "run"
  /\ acc' = [acc EXCEPT ![t] = value_[b]]
  /\ bstate' = [bstate EXCEPT ![b] = "destructing"]
  /\ pc' = [pc EXCEPT ![t] = "dtor_flush"]
  /\ bk' = [bk EXCEPT ![t] = b]
  /\ cur' = [cur EXCEPT ![t] = parent[b]]
  /\ cont' = [cont EXCEPT ![t] = "exiting"]
  /\ Inside(t)
  /\ UNCHANGED <<counter_, brokers_, mutex_, alive, value_, parent, it, arg,
                 ret, tag, ndebug, fate, total, via, inner>>
  /\ UNCHANGED trace

\* every thread_local broker of the thread is gone
ExitDone(t) ==
  /\ pc[t] = "exiting" /\ fate = "run"
  /\ \A g \in Tags : bstate[Slot(g, t)] \in {"none", "destroyed"}
  /\ pc' = [pc EXCEPT ![t] = "exited"]
  /\ cont' = [cont EXCEPT ![t] = "idle"]
  /\ Inside(t)
  /\ UNCHANGED <<progVars, cur, bk, acc, it, arg, ret, tag, ndebug, fate,
                 total, via, inner>>
  /\ UNCHANGED trace

\* ~counter_broker running on a counter that has been destroyed: counter_ is
\* a dangling reference, the access is undefined behaviour
DtorDangling(t) ==
  /\ pc[t] \in {"dtor_flush", "dtor_lock", "dtor_remove"} /\ fate = "run"
  /\ ~alive[cur[t]]
  /\ fate' = "ub"
  /\ Inside(t)
  /\ UNCHANGED <<progVars, pc, cur, bk, cont, acc, it, arg, ret, tag, ndebug,
                 total, via, inner>>
  /\ UNCHANGED trace

\* ~tls_distributed_counter destroys global_:
\* ~distributable_counter() { assert(brokers_.empty()); }
\* With NDEBUG the assert expands to nothing.
WrapperDestroy(w) ==
  /\ alive[w] /\ fate = "run"
  /\ NoCallOn(w)
  /\ nops < limit
  /\ nops' = nops + 1
  /\ IF brokers_[w] # <<>> /\ ~ndebug
     THEN /\ fate' = "abort"
          /\ alive' = alive
     ELSE /\ fate' = fate
          /\ alive' = [alive EXCEPT ![w] = FALSE]
  /\ solo' = 0
  /\ prev' = [stage |-> "destroying", to |-> w]
  /\ snap' = NoValue
  /\ clean' = FALSE
  /\ UNCHANGED <<counter_, brokers_, mutex_, value_, parent, bstate, pc, cur,
                 bk, cont, acc, it, arg, ret, tag, ndebug, initial, total,
                 limit, via, inner>>
  /\ UNCHANGED trace

\* Two wrapper objects, of one instantiation or of two, in a build with or
\* without NDEBUG.
InitTls ==
  /\ initial = [c \in Counters |-> 0]
  /\ counter_ = initial
  /\ total = initial
  /\ brokers_ = [c \in Counters |-> <<>>]
  /\ mutex_ = [c \in Counters |-> 0]
  /\ alive = [c \in Counters |-> TRUE]
  /\ value_ = [b \in Brokers |-> 0]
  /\ parent = [b \in Brokers |-> 0]
  /\ bstate = [b \in Brokers |-> "none"]
  /\ pc = [t \in Threads |-> "idle"]
  /\ cur = [t \in Threads |-> Main]
  /\ bk = [t \in Threads |-> t]
  /\ cont = [t \in Threads |-> "idle"]
  /\ acc = [t \in Threads |-> 0]
  /\ it = [t \in Threads |-> 1]
  /\ arg = [t \in Threads |-> 0]
  /\ ret = [t \in Threads |-> NoValue]
  /\ tag \in [Counters -> Tags]
  /\ tag[Main] = 1
  /\ ndebug \in BOOLEAN
  /\ fate = "run"
  /\ nops = 0
  /\ limit = MaxWrapperOps
  /\ solo = 0
  /\ prev = None
  /\ snap = NoValue
  /\ clean = TRUE
  /\ via = [t \in Threads |-> Main]
  /\ inner = [t \in Threads |-> NoValue]
  /\ trace = NoTrace

NextTls ==
  \/ \E t \in Threads :
       \/ \E w \in Counters, a \in Amounts : WrapperAdd(t, w, a)
       \/ \E w \in Counters, a \in Amounts : WrapperSub(t, w, a)
       \/ CtorLock(t)
       \/ CtorPush(t)
       \/ LocalAddLoad(t)
       \/ LocalSubLoad(t)
       \/ BrokerAddStore(t)
       \/ BrokerSubStore(t)
       \/ \E w \in Counters : WrapperLoad(t, w)
       \/ LoadLock(t)
       \/ LoadIter(t)
       \/ LoadUnlock(t)
       \/ LoadReturn(t)
       \/ \E w \in Counters, to \in ExchangeTo : WrapperExchange(t, w, to)
       \/ ExchangeLock(t)
       \/ ExchangeIter(t)
       \/ ExchangeUnlock(t)
       \/ ExchangeReturn(t)
       \/ WrapperExchangeEnd(t)
       \/ ThreadExit(t)
       \/ \E g \in Tags : ExitDtorRead(t, g)
       \/ DtorFlush(t)
       \/ DtorLock(t)
       \/ DtorRemove(t)
       \/ DtorDangling(t)
       \/ ExitDone(t)
  \/ \E w \in Counters : WrapperDestroy(w)

SpecTls == InitTls /\ [][NextTls]_vars

\* ----------------------------------------------- fair scheduling
\* the steps of thread t inside a call it has started
Step(t) ==
  \/ CtorLock(t)
  \/ CtorPush(t)
  \/ BrokerAddStore(t)
  \/ BrokerSubStore(t)
  \/ DtorFlush(t)
  \/ DtorLock(t)
  \/ DtorRemove(t)
  \/ LoadLock(t)
  \/ LoadIter(t)
  \/ LoadUnlock(t)
  \/ LoadReturn(t)
  \/ ExchangeLock(t)
  \/ ExchangeIter(t)
  \/ ExchangeUnlock(t)
  \/ ExchangeReturn(t)

InitFair ==
  /\ initial \in [Counters -> Initials]
  /\ counter_ = initial
  /\ total = initial
  /\ brokers_ = [c \in Counters |-> <<>>]
  /\ mutex_ = [c \in Counters |-> 0]
  /\ alive = [c \in Counters |-> TRUE]
  /\ value_ = [b \in Brokers |-> 0]
  /\ parent = [b \in Brokers |-> 0]
  /\ bstate = [b \in Brokers |-> "none"]
  /\ pc = [t \in Threads |-> "idle"]
  /\ cur = [t \in Threads |-> Main]
  /\ bk = [t \in Threads |-> t]
  /\ cont = [t \in Threads |-> "idle"]
  /\ acc = [t \in Threads |-> 0]
  /\ it = [t \in Threads |-> 1]
  /\ arg = [t \in Threads |-> 0]
  /\ ret = [t \in Threads |-> NoValue]
  /\ tag = [c \in Counters |-> 1]
  /\ ndebug = FALSE
  /\ fate = "run"
  /\ nops = 0
  /\ limit = MaxFairOps
  /\ solo = 0
  /\ prev = None
  /\ snap = NoValue
  /\ clean = TRUE
  /\ via = [t \in Threads |-> Main]
  /\ inner = [t \in Threads |-> NoValue]
  /\ trace = NoTrace

\* every thread that can take a step of its call eventually takes one; the
\* threads are free to issue calls or not
SpecFair == InitFair /\ [][Next]_vars /\ \A t \in Threads : WF_vars(Step(t))

\* ------------------------------ += / -= and load, no exchange, no destructor
InitPrefix ==
  /\ initial \in [Counters -> Initials]
  /\ counter_ = initial
  /\ total = initial
  /\ brokers_ = [c \in Counters |-> <<>>]
  /\ mutex_ = [c \in Counters |-> 0]
  /\ alive = [c \in Counters |-> TRUE]
  /\ value_ = [b \in Brokers |-> 0]
  /\ parent = [b \in Brokers |-> 0]
  /\ bstate = [b \in Brokers |-> "none"]
  /\ pc = [t \in Threads |-> "idle"]
  /\ cur = [t \in Threads |-> Main]
  /\ bk = [t \in Threads |-> t]
  /\ cont = [t \in Threads |-> "idle"]
  /\ acc = [t \in Threads |-> 0]
  /\ it = [t \in Threads |-> 1]
  /\ arg = [t \in Threads |-> 0]
  /\ ret = [t \in Threads |-> NoValue]
  /\ tag = [c \in Counters |-> 1]
  /\ ndebug = FALSE
  /\ fate = "run"
  /\ nops = 0
  /\ limit = MaxPrefixOps
  /\ solo = 0
  /\ prev = None
  /\ snap = NoValue
  /\ clean = TRUE
  /\ via = [t \in Threads |-> Main]
  /\ inner = [t \in Threads |-> NoValue]
  /\ trace = [NoTrace EXCEPT !.on = TRUE]

NextPrefix ==
  \E t \in Threads :
    \/ \E a \in Amounts : DirectAdd(t, Main, a)
    \/ \E a \in Amounts : DirectSub(t, Main, a)
    \/ CallCtor(t, t, Main)
    \/ CtorLock(t)
    \/ CtorPush(t)
    \/ \E a \in Amounts : BrokerAddLoad(t, t, a)
    \/ \E a \in Amounts : BrokerSubLoad(t, t, a)
    \/ BrokerAddStore(t)
    \/ BrokerSubStore(t)
    \/ CallLoad(t, Main)
    \/ LoadLock(t)
    \/ LoadIter(t)
    \/ LoadUnlock(t)
    \/ LoadReturn(t)

SpecPrefix == InitPrefix /\ [][NextPrefix]_vars

\* ----------------------------------------------------------- properties
AllIdle == \A t \in Threads : pc[t] = "idle"

Registered(c) == {brokers_[c][i] : i \in 1 .. Len(brokers_[c])}

\* amounts drained by exchange calls that have not returned yet
RECURSIVE InFlight(_, _)
InFlight(S, c) ==
  IF S = {} THEN 0
  ELSE LET t == CHOOSE x \in S : TRUE
       IN (IF pc[t] \in {"xchg_iter", "xchg_swap"} /\ cur[t] = c
           THEN acc[t] ELSE 0) + InFlight(S \ {t}, c)

\* C1 (shard cleanup, P4): once every broker bound to the counter has been
\* destroyed and every call has returned, load() (the residual, the registry
\* being empty) equals initial + applied amounts - amounts returned by
\* exchange + values installed by exchange.
C1_ShardCleanup ==
  ( /\ AllIdle
    /\ brokers_[Main] = <<>>
    /\ \A b \in Brokers : bstate[b] \in {"none", "destroyed"} )
  => LoadResult(0, counter_[Main]) = total[Main]

\* C2 (shard transparency, P1/P2): with no exchange and no broker destruction
\* called so far, a load() that runs after every other call has completed
\* returns initial + the sum of all amounts applied directly and through the
\* brokers, modulo 2^Width.
C2_Transparency ==
  (prev.stage = "loaded" /\ clean) => ret[solo] = total[Main]

C2_Witness ==
  /\ prev.stage = "loaded" /\ clean
  /\ counter_[Main] # initial[Main]
  /\ \E b \in Registered(Main) : value_[b] # 0

\* C3 (exchange resets, P3): an exchange(X) that runs with no other call in
\* progress returns the residual plus the registered brokers' values as they
\* were at the call, leaves every registered broker at 0 and the residual at
\* X; a load() that follows it immediately returns X.
C3_ExchangeResets ==
  /\ prev.stage = "exchanged" =>
        /\ ret[solo] = snap
        /\ counter_[Main] = prev.to
        /\ \A b \in Registered(Main) : value_[b] = 0
  /\ prev.stage = "reloaded" => ret[solo] = prev.to

C3_Witness ==
  /\ prev.stage = "reloaded"
  /\ prev.to # 0
  /\ Registered(Main) # {}
  /\ total[Main] = prev.to

\* C9 (shard independence, P5): a broker's += / -= changes only that broker's
\* value; a broker's destruction changes only the parent's residual and that
\* broker's membership of the registry; every other broker's value stays.
C9_AddFrame(t) ==
  ( \/ pc[t] = "idle" /\ pc'[t] \in {"add_store", "sub_store"}
    \/ pc[t] \in {"add_store", "sub_store"} /\ pc'[t] = "idle" )
  => /\ \A b \in Brokers \ {bk'[t]} : value_'[b] = value_[b]
     /\ counter_' = counter_
     /\ brokers_' = brokers_

C9_DtorFrame(t) ==
  ( /\ pc'[t] # pc[t]
    /\ pc'[t] \in {"dtor_flush", "dtor_lock", "dtor_remove"}
         \/ pc[t] = "dtor_remove" )
  => /\ value_' = value_
     /\ \A c \in Counters :
          /\ Registered(c) \ {bk'[t]} = Registered(c)' \ {bk'[t]}
          /\ c # parent[bk'[t]] => counter_'[c] = counter_[c]

C9_Independence ==
  [][\A t \in Threads : C9_AddFrame(t) /\ C9_DtorFrame(t)]_vars

C9_Witness ==
  \E b1, b2 \in Brokers :
    /\ bstate[b1] = "destroyed"
    /\ bstate[b2] = "registered" /\ value_[b2] # 0

\* C10 (total invariant): whenever no broker is between its flush and its
\* unregistration, residual + values of the registered brokers (+ what a
\* running exchange has already drained) is the logically correct total.
C10_TotalInvariant ==
  (\A b \in Brokers : bstate[b] # "flushed")
  => Wrap(counter_[Main] + SumValues(brokers_[Main], value_)
          + InFlight(Threads, Main)) = total[Main]

\* C4 (wrapper shard identity): a += / -= issued by a thread through wrapper
\* W runs on a broker bound to W's own counter, and, with no exchange, thread
\* exit or destruction so far and every call returned, each wrapper's
\* counter holds exactly the amounts issued through that wrapper.
C4_ShardIdentity ==
  /\ \A t \in Threads :
       pc[t] \in {"add_load", "sub_load", "add_store", "sub_store"}
       => parent[bk[t]] = via[t]
  /\ (AllIdle /\ clean) => \A w \in Counters : Aggregate(w) = total[w]

\* C5 (wrapper lifetime): no counter is destroyed with a broker registered,
\* the destructor's check never fails, and no broker destructor runs on a
\* destroyed counter.
C5_Lifetime ==
  /\ fate \notin {"abort", "ub"}
  /\ \A c \in Counters : ~alive[c] => brokers_[c] = <<>>
  /\ \A b \in Brokers :
       bstate[b] \in {"constructing", "registered", "destructing", "flushed"}
       => alive[parent[b]]

\* C6 (wrapper delegation): the wrapper's exchange returns to its caller,
\* and the value it hands over is the value the internal counter's exchange
\* returned.
C6_Delegation ==
  /\ fate # "noreturn"
  /\ \A t \in Threads : inner[t] # NoValue => ret[t] = inner[t]

\* C7 (fatal misuse): destroying a counter with a broker registered traps and
\* does not complete; destroying a counter with an empty registry succeeds.
C7_FatalMisuse ==
  [][\A w \in Counters :
       (nops' = nops + 1 /\ prev'.stage = "destroying" /\ prev'.to = w)
       => IF brokers_[w] # <<>>
          THEN fate' = "abort" /\ alive' = alive
          ELSE fate' = fate /\ alive' = [alive EXCEPT ![w] = FALSE]]_vars

\* the increments applied so far, counted without wrapping
RECURSIVE Increments(_)
Increments(B) ==
  IF B = {} THEN 0
  ELSE LET b == CHOOSE x \in B : TRUE
       IN  Len(trace.hist[b]) + Increments(B \ {b})

\* C8 (monotonic observation): with brokers only incremented by 1 by their
\* owners, no exchange and no destruction, every load() result lies between
\* the initial value and the initial value plus the number of increments, and
\* the results a reader sees one after the other never decrease.
C8_Range ==
  \A t \in Threads :
    ret[t] # NoValue =>
      (initial[Main] <= ret[t]
       /\ ret[t] <= initial[Main] + Increments(Brokers))

C8_Step ==
  \A t \in Threads :
    (ret[t] # NoValue /\ ret'[t] # NoValue) => ret[t] <= ret'[t]

C8_Monotonic == []C8_Range /\ [][C8_Step]_vars

\* initial + N fits Integral
C8_NoWrap == initial[Main] + Increments(Brokers) <= Modulus - 1

\* C8 amended: as long as the initial value plus the number of increments
\* applied does not exceed the largest Integral, every load() result lies
\* between the initial value and the initial value plus the increments
\* applied, and the results a reader sees one after the other never decrease.
C8_MonotonicNoWrap ==
  /\ [](C8_NoWrap => C8_Range)
  /\ [][C8_NoWrap' => C8_Step]_vars

C8_Witness ==
  \E t \in Threads :
    /\ ret[t] # NoValue /\ C8_NoWrap
    /\ pc[t] = "load_sum" /\ LoadResult(acc[t], counter_[Main]) > ret[t]

\* C11: a load or an exchange that starts while a broker's destructor has
\* added the broker's value to the residual and has not yet removed the broker
\* from the list, and that runs with no other step in between, returns the
\* true total plus the value that destructor flushed: the value is counted in
\* the residual and again in the broker.
C11_DoubleCount ==
  (prev.stage \in {"window_loaded", "window_exchanged"} /\ snap # NoValue)
    => ret[solo] = snap

C11_Witness ==
  /\ prev.stage = "window_loaded" /\ snap # NoValue
  /\ ret[solo] # total[Main]
  /\ \E b \in Registered(Main) : bstate[b] = "flushed" /\ value_[b] # 0

C11_WitnessExchange ==
  /\ prev.stage = "window_exchanged" /\ snap # NoValue
  /\ total[Main] # prev.to

\* the program points between taking and releasing mutex_
Mutating == {"ctor_push", "dtor_remove"}
Traversing == {"load_iter", "xchg_iter"}
Holding(c) == {t \in Threads : cur[t] = c /\ pc[t] \in Mutating \cup Traversing}

C12_LockHolder ==
  \A c \in Counters :
    /\ Cardinality(Holding(c)) <= 1
    /\ \A t \in Holding(c) : mutex_[c] = t
    /\ \A t \in Holding(c) :
         pc[t] \in Traversing => it[t] \in 1 .. (Len(brokers_[c]) + 1)

C12_Step ==
  \A c \in Counters :
    /\ brokers_'[c] # brokers_[c] =>
         \E t \in Holding(c) :
           /\ pc[t] \in Mutating /\ pc'[t] # pc[t]
           /\ mutex_[c] = t
           /\ \A u \in Threads : ~(cur[u] = c /\ pc[u] \in Traversing)
           /\ pc[t] = "ctor_push" => brokers_'[c] = Append(brokers_[c], bk[t])
           /\ pc[t] = "dtor_remove" =>
                brokers_'[c] = SelectSeq(brokers_[c], LAMBDA x : x # bk[t])
    /\ \A t \in Holding(c) :
         /\ pc[t] \in Traversing => brokers_'[c] = brokers_[c]
         /\ (pc[t] \in Traversing /\ pc'[t] # pc[t]) =>
              it[t] = Len(brokers_[c]) + 1

\* C12: the list of brokers changes only in a broker's constructor (append)
\* and destructor (remove), by the thread that holds mutex_; load and exchange
\* walk it holding the same mutex_; at most one thread is between lock and
\* unlock; the list does not change while a walk is in progress, and a walk
\* ends only after it has visited every element of the list it locked.
C12_MutualExclusion == []C12_LockHolder /\ [][C12_Step]_vars

C12_Witness ==
  \E t, u \in Threads :
    /\ pc[t] \in Traversing /\ it[t] >= 2 /\ mutex_[Main] = t
    /\ pc[u] \in {"ctor_lock", "dtor_lock"}

\* the order in which a broker passes through its states
Lifecycle ==
  {<<"none", "constructing">>, <<"constructing", "registered">>,
   <<"registered", "destructing">>, <<"destructing", "flushed">>,
   <<"flushed", "destroyed">>}

Occurrences(seq, b) == Cardinality({i \in 1 .. Len(seq) : seq[i] = b})

C13_Membership ==
  \A b \in Brokers : \A c \in Counters :
    Occurrences(brokers_[c], b) =
      IF parent[b] = c /\ bstate[b] \in {"registered", "destructing", "flushed"}
      THEN 1 ELSE 0

C13_Step ==
  \A b \in Brokers :
    /\ bstate'[b] # bstate[b] => <<bstate[b], bstate'[b]>> \in Lifecycle
    /\ parent'[b] # parent[b] => (bstate[b] = "none" /\ parent[b] = 0)
    /\ (bstate[b] = "destructing" /\ bstate'[b] = "flushed") =>
         \E t \in Threads :
           /\ bk[t] = b /\ pc[t] = "dtor_flush"
           /\ counter_' = [counter_ EXCEPT ![parent[b]] = Wrap(@ + acc[t])]
    /\ (bstate'[b] # bstate[b] /\ bstate'[b] # "flushed") =>
         counter_' = counter_

\* C13: a broker goes unregistered -> registered -> flushed -> unregistered
\* and stays there; it is in the list of its counter, once, exactly from the
\* end of its constructor to the remove in its destructor; its counter_
\* reference never changes; its destructor adds its value to the residual in
\* one step, once; a destroyed broker is never in a list again.
C13_Lifecycle == []C13_Membership /\ [][C13_Step]_vars

C13_Witness ==
  \E b1, b2 \in Brokers :
    /\ bstate[b1] = "destroyed" /\ parent[b1] = Main
    /\ bstate[b2] = "flushed" /\ b2 \in Registered(Main)
    /\ b1 \notin Registered(Main)

\* the program points of load and of exchange, and a step of t through them
InLoad == {"load_lock", "load_iter", "load_sum"}
InExchange == {"xchg_lock", "xchg_iter", "xchg_swap"}
StepThrough(t, points) ==
  /\ pc[t] \in points \/ pc'[t] \in points
  /\ pc'[t] # pc[t] \/ it'[t] # it[t]

\* C14: no step of load changes the residual, a broker's value or a list of
\* brokers; no step of exchange changes a list of brokers; a step that
\* changes a broker's value is a step of exchange or the store of that
\* broker's own += / -=, so of the counter's operations (+=, -=, load,
\* exchange) only exchange writes a broker's value.
C14_Frame ==
  [][\A t \in Threads :
       /\ StepThrough(t, InLoad) =>
            (counter_' = counter_ /\ value_' = value_ /\ brokers_' = brokers_)
       /\ StepThrough(t, InExchange) => brokers_' = brokers_
       /\ (nops' # nops /\ pc' = pc) =>
            (value_' = value_ /\ brokers_' = brokers_)
       /\ \A b \in Brokers :
            value_'[b] # value_[b] =>
              \E u \in Threads :
                \/ StepThrough(u, InExchange) /\ b \in Registered(cur[u])
                \/ /\ pc[u] \in {"add_store", "sub_store"} /\ pc'[u] = "idle"
                   /\ bk[u] = b]_vars

C14_Witness ==
  \E t, u \in Threads :
    /\ pc[t] = "load_sum" /\ acc[t] # 0
    /\ pc[u] = "xchg_iter" /\ it[u] >= 2
    /\ \A b \in Registered(Main) : value_[b] = 0

\* a writer's next step can be taken in the current state
C15_Enabled ==
  \A t \in Threads :
    /\ pc[t] = "add_store" => ENABLED BrokerAddStore(t)
    /\ pc[t] = "sub_store" => ENABLED BrokerSubStore(t)
    /\ (pc[t] = "idle" /\ nops < limit) =>
         \A a \in Amounts :
           /\ ENABLED DirectAdd(t, Main, a)
           /\ ENABLED DirectSub(t, Main, a)
           /\ bstate[t] = "registered" =>
                (ENABLED BrokerAddLoad(t, t, a) /\ ENABLED BrokerSubLoad(t, t, a))

\* a step of a writer: the counter's += / -=, or a step of a broker's += / -=
C15_WriterStep(t) ==
  \/ nops' # nops /\ pc' = pc
  \/ pc[t] = "idle" /\ pc'[t] \in {"add_store", "sub_store"}
  \/ pc[t] \in {"add_store", "sub_store"} /\ pc'[t] # pc[t]

\* C15: += and -= on a broker and on the counter never take mutex_; in every
\* reachable state, whoever holds mutex_, the pending step of such a call
\* can be taken at once.
C15_NonBlocking ==
  /\ []C15_Enabled
  /\ [][\A t \in Threads : C15_WriterStep(t) => mutex_' = mutex_]_vars

C15_Witness ==
  \E t, u \in Threads :
    /\ t # u /\ mutex_[Main] = u
    /\ pc[t] \in {"add_store", "sub_store"} /\ bk[t] \in Registered(Main)
    /\ pc[u] \in Traversing /\ it[u] = 1

\* the program points where a thread waits for mutex_
Waiting == {"ctor_lock", "dtor_lock", "load_lock", "xchg_lock"}

\* mutex_ is held only by a thread between lock and unlock of a constructor,
\* a destructor, load or exchange, and while a call is pending some step of
\* some call can be taken
C16_Safe ==
  /\ \A c \in Counters :
       mutex_[c] # 0 => mutex_[c] \in Holding(c)
  /\ (\E t \in Threads : pc[t] # "idle") => \E t \in Threads : ENABLED Step(t)

\* C16: under fair scheduling every started call returns with mutex_
\* released, and a thread that waits for mutex_ in load, exchange, a broker's
\* constructor or destructor leaves that point only by taking it, so it
\* eventually holds it; no state with a pending call is stuck; mutex_ is
\* never held outside these four operations.
C16_Termination ==
  /\ []C16_Safe
  /\ [][\A t \in Threads :
         (pc[t] \in Waiting /\ pc'[t] # pc[t]) =>
           (mutex_'[cur[t]] = t /\ pc'[t] \in Mutating \cup Traversing)]_vars
  /\ \A t \in Threads :
       (pc[t] # "idle") ~> (pc[t] = "idle" /\ mutex_[cur[t]] # t)

C16_Witness ==
  \E t, u \in Threads :
    /\ pc[t] \in {"load_lock", "xchg_lock"}
    /\ pc[u] \in Mutating /\ mutex_[cur[t]] = u

\* the sum of the first k amounts target x received
RECURSIVE SumTo(_, _)
SumTo(seq, k) == IF k = 0 THEN 0 ELSE seq[k] + SumTo(seq, k - 1)

\* the results the load of thread t may return: the initial value plus, for
\* each target, the first k amounts it received, k between the number it had
\* received when the load was called and the number when the load returned
RECURSIVE PrefixResults(_, _)
PrefixResults(X, t) ==
  IF X = {} THEN {initial[Main]}
  ELSE LET x == CHOOSE y \in X : TRUE
       IN  {Wrap(r + SumTo(trace.hist[x], k)) :
              r \in PrefixResults(X \ {x}, t),
              k \in trace.from[t][x] .. trace.upto[t][x]}

\* C17: with no exchange and no broker destroyed, what load returns is the
\* initial value plus, for each broker and for the residual, a prefix of the
\* amounts applied to it that holds every amount applied before the load was
\* called and none applied after it returned.
C17_PrefixConsistency ==
  \A t \in Threads :
    (trace.seen[t] /\ pc[t] = "idle" /\ ret[t] # NoValue)
      => ret[t] \in PrefixResults(Targets, t)

\* a load that returned a value the counter held at no instant of the call
C17_Witness ==
  \E t \in Threads :
    /\ trace.seen[t] /\ pc[t] = "idle" /\ ret[t] # NoValue
    /\ ret[t] \notin trace.inst[t]
    /\ \E b \in Registered(Main) : trace.from[t][b] < trace.upto[t][b]

====
